---- MODULE Spec2Model ----
(***************************************************************************)
(* par_scrape: the HTML reducer extract_urls_and_text                      *)
(* (src/src/par_scrape/utils.py, lines 30-99), the POST /scrape handler    *)
(* of src/src/par_scrape/api.py, the helper functions and the batch        *)
(* scripts scrape_all.py and scrape_urls.py, as state machines.            *)
(*                                                                         *)
(* Strings are TLA+ strings; a character is a string of length one.        *)
(* The document is the tree BeautifulSoup(html, "html.parser") builds,     *)
(* kept in document order: find_all and get_text both walk the             *)
(* descendants in that order, so the order is all they read of the tree.   *)
(***************************************************************************)
EXTENDS Integers, Sequences, FiniteSets, TLC

(***************************************************************************)
(* Python str operations used by the reducer and by urllib.parse.          *)
(***************************************************************************)
CharAt(s, i) == SubSeq(s, i, i)

\* s[i:] with a 1-based i
From(s, i) == SubSeq(s, i, Len(s))

\* str.startswith
StartsWith(s, p) == Len(s) >= Len(p) /\ SubSeq(s, 1, Len(p)) = p

RECURSIVE FindFrom(_, _, _)
FindFrom(s, ch, i) ==
    IF i > Len(s) THEN 0
    ELSE IF CharAt(s, i) = ch THEN i
    ELSE FindFrom(s, ch, i + 1)

\* str.find for a one-character needle: the 1-based position, 0 when absent
Find(s, ch) == FindFrom(s, ch, 1)

\* ch in s
Contains(s, ch) == Find(s, ch) > 0

RECURSIVE RFindFrom(_, _, _)
RFindFrom(s, ch, i) ==
    IF i < 1 THEN 0
    ELSE IF CharAt(s, i) = ch THEN i
    ELSE RFindFrom(s, ch, i - 1)

\* str.split(ch): never empty, [""] for the empty string
RECURSIVE SplitStr(_, _)
SplitStr(s, ch) ==
    IF Find(s, ch) = 0 THEN <<s>>
    ELSE <<SubSeq(s, 1, Find(s, ch) - 1)>> \o SplitStr(From(s, Find(s, ch) + 1), ch)

\* sep.join(parts)
RECURSIVE JoinStr(_, _)
JoinStr(parts, sep) ==
    IF parts = <<>> THEN ""
    ELSE IF Len(parts) = 1 THEN parts[1]
    ELSE parts[1] \o sep \o JoinStr(Tail(parts), sep)

\* the characters str.strip() removes (str.isspace), as far as the inputs hold them
Whitespace == {" ", "\n", "\t", "\r"}

RECURSIVE LStrip(_)
LStrip(s) ==
    IF s # "" /\ CharAt(s, 1) \in Whitespace THEN LStrip(From(s, 2)) ELSE s

RECURSIVE RStrip(_)
RStrip(s) ==
    IF s # "" /\ CharAt(s, Len(s)) \in Whitespace
    THEN RStrip(SubSeq(s, 1, Len(s) - 1))
    ELSE s

\* str.strip()
Strip(s) == LStrip(RStrip(s))

UpperLetters == "ABCDEFGHIJKLMNOPQRSTUVWXYZ"

LowerLetters == "abcdefghijklmnopqrstuvwxyz"

LowerChar(c) ==
    IF Find(UpperLetters, c) = 0 THEN c ELSE CharAt(LowerLetters, Find(UpperLetters, c))

\* str.lower() on ASCII
RECURSIVE Lower(_)
Lower(s) == IF s = "" THEN "" ELSE LowerChar(CharAt(s, 1)) \o Lower(From(s, 2))

\* s.replace(ch, "")
RECURSIVE RemoveChar(_, _)
RemoveChar(s, ch) ==
    IF s = "" THEN ""
    ELSE (IF CharAt(s, 1) = ch THEN "" ELSE CharAt(s, 1)) \o RemoveChar(From(s, 2), ch)

(***************************************************************************)
(* urllib.parse, as called at utils.py lines 77 and 80.  A parse result is *)
(* a record; err is TRUE where urlsplit raises ValueError.                 *)
(***************************************************************************)
SchemeChars == LowerLetters \o UpperLetters \o "0123456789+-."

UsesRelative ==
    {"", "ftp", "http", "gopher", "nntp", "imap", "wais", "file", "https",
     "shttp", "mms", "prospero", "rtsp", "rtsps", "rtspu", "sftp", "svn",
     "svn+ssh", "ws", "wss"}

UsesNetloc ==
    {"", "ftp", "http", "gopher", "nntp", "telnet", "imap", "wais", "file",
     "mms", "https", "shttp", "snews", "prospero", "rtsp", "rtsps", "rtspu",
     "rsync", "svn", "svn+ssh", "sftp", "nfs", "git", "git+ssh", "ws", "wss"}

UsesParams ==
    {"", "ftp", "hdl", "prospero", "http", "imap", "https", "shttp", "rtsp",
     "rtsps", "rtspu", "sip", "sips", "mms", "sftp", "tel"}

RECURSIVE AllIn(_, _)
AllIn(s, chars) ==
    s = "" \/ (Contains(chars, CharAt(s, 1)) /\ AllIn(From(s, 2), chars))

\* url.lstrip(_WHATWG_C0_CONTROL_OR_SPACE), then the removal of tab, CR and LF
UrlClean(url) == RemoveChar(RemoveChar(RemoveChar(LStrip(url), "\t"), "\r"), "\n")

Min2(a, b) == IF a < b THEN a ELSE b

\* the position of the first ch at or after position 3, Len(url) + 1 when none
DelimPos(url, ch) == IF FindFrom(url, ch, 3) = 0 THEN Len(url) + 1 ELSE FindFrom(url, ch, 3)

\* _splitnetloc(url, 2): the position (1-based) of the first of / ? # after the
\* leading "//"
NetlocEnd(url) == Min2(DelimPos(url, "/"), Min2(DelimPos(url, "?"), DelimPos(url, "#")))

\* urlsplit: a leading run of scheme characters before the first ":" is the
\* scheme, lower-cased; otherwise the default scheme
SplitScheme(url, scheme0) ==
    IF /\ Find(url, ":") > 1
       /\ Contains(LowerLetters \o UpperLetters, CharAt(url, 1))
       /\ AllIn(SubSeq(url, 1, Find(url, ":") - 1), SchemeChars)
    THEN [scheme |-> Lower(SubSeq(url, 1, Find(url, ":") - 1)),
          rest |-> From(url, Find(url, ":") + 1)]
    ELSE [scheme |-> UrlClean(RStrip(scheme0)), rest |-> url]

\* urlsplit: if url[:2] == '//': netloc, url = _splitnetloc(url, 2)
SplitNetloc(url) ==
    IF StartsWith(url, "//")
    THEN [has |-> TRUE, netloc |-> SubSeq(url, 3, NetlocEnd(url) - 1),
          rest |-> From(url, NetlocEnd(url))]
    ELSE [has |-> FALSE, netloc |-> "", rest |-> url]

\* head, tail = s.split(ch, 1) when ch is in s, else (s, "")
SplitAt(s, ch) ==
    IF Find(s, ch) > 0
    THEN [head |-> SubSeq(s, 1, Find(s, ch) - 1), tail |-> From(s, Find(s, ch) + 1)]
    ELSE [head |-> s, tail |-> ""]

\* urlsplit, from the query on; ValueError("Invalid IPv6 URL") is err
UrlsplitQuery(scheme, n, f, q) ==
    [err |-> n.has /\ (Contains(n.netloc, "[") # Contains(n.netloc, "]")),
     scheme |-> scheme, netloc |-> n.netloc, path |-> q.head, params |-> "",
     query |-> q.tail, fragment |-> f.tail]

UrlsplitFragment(scheme, n, f) == UrlsplitQuery(scheme, n, f, SplitAt(f.head, "?"))

UrlsplitNetloc(scheme, n) == UrlsplitFragment(scheme, n, SplitAt(n.rest, "#"))

UrlsplitScheme(s) == UrlsplitNetloc(s.scheme, SplitNetloc(s.rest))

\* urlsplit(url, scheme)
Urlsplit(url, scheme0) == UrlsplitScheme(SplitScheme(UrlClean(url), scheme0))

\* _splitparams(path): the position of the ";" that starts the params of the last
\* segment, 0 when there is none
ParamsPos(path) ==
    IF Contains(path, "/")
    THEN FindFrom(path, ";", RFindFrom(path, "/", Len(path)))
    ELSE Find(path, ";")

SplitParams(r) ==
    IF r.scheme \in UsesParams /\ Contains(r.path, ";") /\ ParamsPos(r.path) > 0
    THEN [r EXCEPT !.path = SubSeq(r.path, 1, ParamsPos(r.path) - 1),
                   !.params = From(r.path, ParamsPos(r.path) + 1)]
    ELSE r

\* urlparse(url, scheme): urlsplit, then _splitparams on the path
Urlparse(url, scheme0) == SplitParams(Urlsplit(url, scheme0))

\* urlunsplit: the "//" netloc part
UnsplitNetloc(scheme, netloc, path) ==
    IF netloc # "" \/ (scheme # "" /\ scheme \in UsesNetloc /\ ~StartsWith(path, "//"))
    THEN "//" \o netloc \o (IF path # "" /\ ~StartsWith(path, "/") THEN "/" ELSE "") \o path
    ELSE path

\* urlunsplit((scheme, netloc, url, query, fragment))
Urlunsplit(scheme, netloc, path, query, fragment) ==
    (IF scheme # "" THEN scheme \o ":" ELSE "")
    \o UnsplitNetloc(scheme, netloc, path)
    \o (IF query # "" THEN "?" \o query ELSE "")
    \o (IF fragment # "" THEN "#" \o fragment ELSE "")

\* urlunparse((scheme, netloc, url, params, query, fragment))
Urlunparse(scheme, netloc, path, params, query, fragment) ==
    Urlunsplit(scheme, netloc, IF params # "" THEN path \o ";" \o params ELSE path,
               query, fragment)

\* segments[1:-1] = filter(None, segments[1:-1])
DropEmptyMiddle(segs) ==
    IF Len(segs) <= 2 THEN segs
    ELSE <<segs[1]>> \o SelectSeq(SubSeq(segs, 2, Len(segs) - 1), LAMBDA x : x # "")
         \o <<segs[Len(segs)]>>

\* the loop of urljoin over the segments: ".." pops, "." is skipped
RECURSIVE ResolveSegs(_, _)
ResolveSegs(segs, acc) ==
    IF segs = <<>> THEN acc
    ELSE IF segs[1] = ".."
         THEN ResolveSegs(Tail(segs), IF acc = <<>> THEN acc ELSE SubSeq(acc, 1, Len(acc) - 1))
    ELSE IF segs[1] = "."
         THEN ResolveSegs(Tail(segs), acc)
    ELSE ResolveSegs(Tail(segs), Append(acc, segs[1]))

\* base_parts = bpath.split('/'), without its last item unless that is ''
BaseParts(parts) == IF parts[Len(parts)] # "" THEN SubSeq(parts, 1, Len(parts) - 1) ELSE parts

\* the segments urljoin resolves
Segments(bpath, path) ==
    IF StartsWith(path, "/")
    THEN SplitStr(path, "/")
    ELSE DropEmptyMiddle(BaseParts(SplitStr(bpath, "/")) \o SplitStr(path, "/"))

\* '/'.join(resolved_path) or '/', a last segment "." or ".." leaving a trailing "/"
JoinResolved(segs) ==
    IF JoinStr(ResolveSegs(segs, <<>>) \o
               (IF segs[Len(segs)] \in {".", ".."} THEN <<"">> ELSE <<>>), "/") = ""
    THEN "/"
    ELSE JoinStr(ResolveSegs(segs, <<>>) \o
                 (IF segs[Len(segs)] \in {".", ".."} THEN <<"">> ELSE <<>>), "/")

\* urljoin once both arguments are parsed: netloc is the one in force
UrljoinParsed(b, u, url, netloc) ==
    IF b.err \/ u.err THEN [err |-> TRUE, url |-> ""]
    ELSE IF u.scheme # b.scheme \/ u.scheme \notin UsesRelative
         THEN [err |-> FALSE, url |-> url]
    ELSE IF u.scheme \in UsesNetloc /\ u.netloc # ""
         THEN [err |-> FALSE,
               url |-> Urlunparse(u.scheme, u.netloc, u.path, u.params, u.query, u.fragment)]
    ELSE IF u.path = "" /\ u.params = ""
         THEN [err |-> FALSE,
               url |-> Urlunparse(u.scheme, netloc, b.path, b.params,
                                  IF u.query = "" THEN b.query ELSE u.query, u.fragment)]
    ELSE [err |-> FALSE,
          url |-> Urlunparse(u.scheme, netloc, JoinResolved(Segments(b.path, u.path)),
                             u.params, u.query, u.fragment)]

UrljoinBase(b, u, url) ==
    UrljoinParsed(b, u, url,
                  IF u.scheme \in UsesNetloc /\ u.netloc = "" THEN b.netloc ELSE u.netloc)

UrljoinUrl(b, url) == UrljoinBase(b, Urlparse(url, b.scheme), url)

\* variant: the href is taken as it stands, without resolution
UrljoinUnresolved(base, url) == [err |-> FALSE, url |-> url]

\* urljoin(base, url): [err, url]
Urljoin(base, url) ==
    IF base = "" THEN [err |-> FALSE, url |-> url]
    ELSE IF url = "" THEN [err |-> FALSE, url |-> base]
    ELSE UrljoinUrl(Urlparse(base, ""), url)

(***************************************************************************)
(* The parse tree.  A node is an element in document order with its tag,   *)
(* its one reference attribute (attr is "" when it has none) and the text  *)
(* of its text child ("" when it has none).  html.parser reads the content *)
(* of script and style as one text child, so a flat sequence holds every   *)
(* subtree the reducer removes.                                            *)
(***************************************************************************)
Anchor(href, t) == [tag |-> "a", attr |-> "href", val |-> href, text |-> t]

Element(tag, t) == [tag |-> tag, attr |-> "", val |-> "", text |-> t]

RefElement(tag, attr, val) == [tag |-> tag, attr |-> attr, val |-> val, text |-> ""]

\* href values of the anchors of the documents of the link pass
Hrefs == {"/p", "q", "https://h/p", "https://a?", "ftp://a", "#f", "//["}

\* href values of the anchors of the documents of the filter pass: one for each
\* operand of the test of lines 67-74, and one that passes it
FilterHrefs == {"", "#f", "javascript:j", "mailto:m", "tel:1", "/p"}

FilterNodes == {Anchor(h, "x") : h \in FilterHrefs}

FilterBases == {"https://h", ""}

\* the nodes of the documents of the link pass: anchors, and elements of other
\* tags that carry a reference attribute
Nodes ==
    {Anchor(h, "x") : h \in Hrefs}
    \cup {RefElement("img", "src", "https://i"), RefElement("link", "href", "https://l")}

\* base_url arguments: two URLs and the empty string
Bases == {"https://h", "https://h/d/e", ""}

\* text children of the visible elements of the documents of the text pass
Texts == {" x \n\n y ", "y", " \n "}

\* the nodes of the documents of the text pass
TextNodes ==
    {Element("p", t) : t \in Texts}
    \cup {Element("script", "y"), Element("script", "z"), Element("style", "s"),
          Anchor("/p", "x"), Anchor("//[", "x"), RefElement("img", "src", "https://i")}

\* base_url arguments of the text pass: a URL and a string urlsplit rejects
TextBases == {"https://h", "http://["}

MaxNodes == 3

Docs == UNION {[1..n -> Nodes] : n \in 0..MaxNodes}

TextDocs == UNION {[1..n -> TextNodes] : n \in 0..MaxNodes}

FilterDocs == UNION {[1..n -> FilterNodes] : n \in 0..MaxNodes}

NumCalls == 2

Calls == 1..NumCalls

(***************************************************************************)
(* The state: the locals of each invocation of extract_urls_and_text.      *)
(***************************************************************************)
VARIABLES
    pc,           \* where each invocation stands
    html,         \* the document as parsed (the argument)
    base_url,     \* the argument
    soup,         \* the tree the invocation works on
    idx,          \* position of the loop of line 64 in find_all's result
    urls,         \* line 63
    k,            \* position of the loop of line 87 in urls
    seen,         \* line 85
    unique_urls,  \* line 86
    text,         \* line 93
    clean_text,   \* line 97
    returned,     \* history: argument and outcome of every invocation that has ended
    body,         \* the JSON body of the POST /scrape request
    page,         \* what fetch_url does when it is called for the request
    hpc,          \* where the request stands
    request,      \* the ScrapeRequest built from the body
    fetch_call,   \* the arguments fetch_url was called with
    html_list,    \* api.py line 454
    response,     \* the answer to the request
    call,         \* a call of one of the helper functions: its name and arguments
    result,       \* what the call returned
    driver,       \* the batch script that runs: "scrape_all" or "scrape_urls"
    dpc,          \* where the script stands
    url_index,    \* position of the loop 'for url in urls' in the list
    attempted,    \* the URLs a scrape has been started for, in the order of the starts
    outcome       \* what the last attempt did

\* the state of the POST /scrape request
handlerVars == <<body, page, hpc, request, fetch_call, html_list, response>>

\* the state of the helper call
helperVars == <<call, result>>

\* the state of the batch script
driverVars == <<driver, dpc, url_index, attempted, outcome>>

serviceVars == <<handlerVars, helperVars, driverVars>>

reducerVars ==
    <<pc, html, base_url, soup, idx, urls, k, seen, unique_urls, text, clean_text, returned>>

vars == <<reducerVars, serviceVars>>

\* variant: the script and style elements are left in the tree
DecomposedNothing(doc) == doc

\* soup(["script", "style"]) ... decompose(): lines 59-60
Decomposed(doc) == SelectSeq(doc, LAMBDA n : n.tag \notin {"script", "style"})

\* variant: every element carrying an href, whatever its tag
FindAnyHref(doc) == SelectSeq(doc, LAMBDA n : n.attr = "href")

\* soup.find_all("a", href=True): line 64
FindAnchors(doc) == SelectSeq(doc, LAMBDA n : n.tag = "a" /\ n.attr = "href")

\* variant: the test of lines 67-73 without its "#" case
SkippedNoFragment(href) ==
    \/ href = ""
    \/ StartsWith(href, "javascript:")
    \/ StartsWith(href, "mailto:")
    \/ StartsWith(href, "tel:")

\* variant: the test of lines 67-73 without its "not href" case
SkippedNonEmptyOnly(href) ==
    \/ StartsWith(href, "#")
    \/ StartsWith(href, "javascript:")
    \/ StartsWith(href, "mailto:")
    \/ StartsWith(href, "tel:")

\* the test of lines 67-73 on the attribute value
Skipped(href) ==
    \/ href = ""
    \/ StartsWith(href, "#")
    \/ StartsWith(href, "javascript:")
    \/ StartsWith(href, "mailto:")
    \/ StartsWith(href, "tel:")

\* variant: the scheme check of line 81 left out
SchemeAcceptedAny(scheme) == TRUE

\* parsed.scheme in ["http", "https"]: line 81
SchemeAccepted(scheme) == scheme \in {"http", "https"}

\* variant: the membership test always succeeds (no deduplication)
IsNewAlways(c, url) == TRUE

\* variant: seen is one set of the process, shared by the invocations
IsNewShared(c, url) == url \notin UNION {seen[d] : d \in Calls}

\* url not in seen: line 88
IsNew(c, url) == url \notin seen[c]

\* soup.get_text(separator="\n", strip=True): every text child stripped, the
\* empty ones left out, joined by the separator
RECURSIVE StrippedStrings(_)
StrippedStrings(doc) ==
    IF doc = <<>> THEN <<>>
    ELSE (IF Strip(doc[1].text) = "" THEN <<>> ELSE <<Strip(doc[1].text)>>)
         \o StrippedStrings(Tail(doc))

GetText(doc) == JoinStr(StrippedStrings(doc), "\n")

\* [line.strip() for line in text.split("\n") if line.strip()]: line 96
RECURSIVE CleanLines(_)
CleanLines(lines) ==
    IF lines = <<>> THEN <<>>
    ELSE (IF Strip(lines[1]) = "" THEN <<>> ELSE <<Strip(lines[1])>>)
         \o CleanLines(Tail(lines))

\* variant: the text of line 93 returned as it is
CleanTextRaw(t) == t

\* lines 96-97
CleanText(t) == JoinStr(CleanLines(SplitStr(t, "\n")), "\n")

(***************************************************************************)
(* The values of the POST /scrape request of api.py and of the helper      *)
(* calls.                                                                  *)
(***************************************************************************)
\* a field of the JSON body: given with a value, or left out
Given(v) == [given |-> TRUE, v |-> v]

\* zero is a value of the field's type that is not read
Omitted(zero) == [given |-> FALSE, v |-> zero]

\* a value of wait_selector (str | None): None, or the string s
NoneSelector == [null |-> TRUE, s |-> ""]

Selector(s) == [null |-> FALSE, s |-> s]

NoBody ==
    [url |-> Omitted(""), fetch_using |-> Omitted(""), sleep_time |-> Omitted(0),
     timeout |-> Omitted(0), headless |-> Omitted(FALSE), wait_type |-> Omitted(""),
     wait_selector |-> Omitted(NoneSelector)]

NoRequest ==
    [url |-> "", fetch_using |-> "", sleep_time |-> 0, timeout |-> 0, headless |-> FALSE,
     wait_type |-> "", wait_selector |-> NoneSelector]

\* fetch_url has not been called
NoFetchCall ==
    [called |-> FALSE, url |-> "", fetch_using |-> "", sleep_time |-> 0, timeout |-> 0,
     headless |-> FALSE, wait_type |-> "", wait_selector |-> NoneSelector]

\* a value fetch_url returns: None, or a list of documents
NoneList == [none |-> TRUE, items |-> <<>>]

ListOf(items) == [none |-> FALSE, items |-> items]

\* what fetch_url does: it returns a value, or raises an exception with a message
Returns(l) == [raises |-> FALSE, list |-> l, msg |-> ""]

Raises(msg) == [raises |-> TRUE, list |-> NoneList, msg |-> msg]

\* no answer yet
NoResponse ==
    [status |-> 0, detail |-> "", url |-> "", urls |-> <<>>, text |-> "", fetch_using |-> ""]

NoHelperCall == [fn |-> "", args |-> <<>>]

NoResult == [kind |-> "", value |-> <<>>]

\* no request has arrived
HandlerIdle ==
    /\ body = NoBody
    /\ page = Returns(NoneList)
    /\ hpc = "idle"
    /\ request = NoRequest
    /\ fetch_call = NoFetchCall
    /\ html_list = NoneList
    /\ response = NoResponse

\* no batch script runs
DriverIdle ==
    /\ driver = ""
    /\ dpc = "idle"
    /\ url_index = 1
    /\ attempted = <<>>
    /\ outcome = ""

\* no request has arrived, no helper is called and no batch script runs
ServiceIdle ==
    /\ HandlerIdle
    /\ call = NoHelperCall
    /\ result = NoResult
    /\ DriverIdle

(***************************************************************************)
(* Initial states: invocation 1 has been called on a parsed document; in   *)
(* InitTwo every invocation has.                                           *)
(***************************************************************************)
ReducerInit(args) ==
    /\ pc = [c \in Calls |-> IF args[c].on THEN "decompose" ELSE "idle"]
    /\ html = [c \in Calls |-> args[c].html]
    /\ base_url = [c \in Calls |-> args[c].base]
    /\ soup = [c \in Calls |-> args[c].html]
    /\ idx = [c \in Calls |-> 1]
    /\ urls = [c \in Calls |-> <<>>]
    /\ k = [c \in Calls |-> 1]
    /\ seen = [c \in Calls |-> {}]
    /\ unique_urls = [c \in Calls |-> <<>>]
    /\ text = [c \in Calls |-> ""]
    /\ clean_text = [c \in Calls |-> ""]
    /\ returned = {}

InitWith(args) == ReducerInit(args) /\ ServiceIdle

NotCalled == [on |-> FALSE, html |-> <<>>, base |-> ""]

Init ==
    \E d \in Docs, b \in Bases :
        InitWith([c \in Calls |-> IF c = 1 THEN [on |-> TRUE, html |-> d, base |-> b]
                                  ELSE NotCalled])

InitFilter ==
    \E d \in FilterDocs, b \in FilterBases :
        InitWith([c \in Calls |-> IF c = 1 THEN [on |-> TRUE, html |-> d, base |-> b]
                                  ELSE NotCalled])

InitText ==
    \E d \in TextDocs, b \in TextBases :
        InitWith([c \in Calls |-> IF c = 1 THEN [on |-> TRUE, html |-> d, base |-> b]
                                  ELSE NotCalled])

(***************************************************************************)
(* The steps of one invocation.                                            *)
(***************************************************************************)
\* lines 59-60
Decompose(c) ==
    /\ pc[c] = "decompose"
    /\ soup' = [soup EXCEPT ![c] = Decomposed(soup[c])]
    /\ pc' = [pc EXCEPT ![c] = "links"]
    /\ UNCHANGED <<html, base_url, idx, urls, k, seen, unique_urls, text, clean_text, returned>>
    /\ UNCHANGED serviceVars

\* lines 79-82: the parsed scheme decides; urlparse may raise ValueError
ParsedOutcome(joined, parsed) ==
    IF joined.err \/ parsed.err THEN [kind |-> "raise", url |-> ""]
    ELSE IF SchemeAccepted(parsed.scheme) THEN [kind |-> "append", url |-> joined.url]
    ELSE [kind |-> "drop", url |-> ""]

\* line 80
JoinedOutcome(joined) == ParsedOutcome(joined, Urlparse(joined.url, ""))

\* lines 65-82 for one anchor: what the iteration does with its href
LinkOutcome(base, href) ==
    IF Skipped(href) THEN [kind |-> "skip", url |-> ""]
    ELSE JoinedOutcome(Urljoin(base, href))

\* variant: urls is one list of the process, appended to by every invocation
LinkApplyShared(c, o) ==
    /\ pc' = [pc EXCEPT ![c] = IF o.kind = "raise" THEN "raised" ELSE @]
    /\ idx' = [idx EXCEPT ![c] = IF o.kind = "raise" THEN @ ELSE @ + 1]
    /\ urls' = [d \in Calls |-> IF o.kind = "append" THEN Append(urls[d], o.url) ELSE urls[d]]

\* the effect of one iteration on the locals of invocation c
LinkApply(c, o) ==
    /\ pc' = [pc EXCEPT ![c] = IF o.kind = "raise" THEN "raised" ELSE @]
    /\ idx' = [idx EXCEPT ![c] = IF o.kind = "raise" THEN @ ELSE @ + 1]
    /\ urls' = [urls EXCEPT ![c] = IF o.kind = "append" THEN Append(@, o.url) ELSE @]

\* one iteration of the loop of lines 64-82; a ValueError of urljoin or urlparse
\* leaves the function
LinkStep(c) ==
    /\ pc[c] = "links"
    /\ idx[c] <= Len(FindAnchors(soup[c]))
    /\ LinkApply(c, LinkOutcome(base_url[c], FindAnchors(soup[c])[idx[c]].val))
    /\ UNCHANGED <<html, base_url, soup, k, seen, unique_urls, text, clean_text, returned>>
    /\ UNCHANGED serviceVars

\* the loop of line 64 is exhausted
LinksDone(c) ==
    /\ pc[c] = "links"
    /\ idx[c] > Len(FindAnchors(soup[c]))
    /\ pc' = [pc EXCEPT ![c] = "dedup"]
    /\ UNCHANGED <<html, base_url, soup, idx, urls, k, seen, unique_urls, text, clean_text, returned>>
    /\ UNCHANGED serviceVars

\* one iteration of the loop of lines 87-90
DedupStep(c) ==
    /\ pc[c] = "dedup"
    /\ k[c] <= Len(urls[c])
    /\ IF IsNew(c, urls[c][k[c]])
       THEN /\ seen' = [seen EXCEPT ![c] = @ \cup {urls[c][k[c]]}]
            /\ unique_urls' = [unique_urls EXCEPT ![c] = Append(@, urls[c][k[c]])]
       ELSE UNCHANGED <<seen, unique_urls>>
    /\ k' = [k EXCEPT ![c] = @ + 1]
    /\ UNCHANGED <<pc, html, base_url, soup, idx, urls, text, clean_text, returned>>
    /\ UNCHANGED serviceVars

\* the loop of line 87 is exhausted; line 93
ExtractText(c) ==
    /\ pc[c] = "dedup"
    /\ k[c] > Len(urls[c])
    /\ text' = [text EXCEPT ![c] = GetText(soup[c])]
    /\ pc' = [pc EXCEPT ![c] = "clean"]
    /\ UNCHANGED <<html, base_url, soup, idx, urls, k, seen, unique_urls, clean_text, returned>>
    /\ UNCHANGED serviceVars

\* lines 96-99: the invocation returns (unique_urls, clean_text)
Clean(c) ==
    /\ pc[c] = "clean"
    /\ clean_text' = [clean_text EXCEPT ![c] = CleanText(text[c])]
    /\ pc' = [pc EXCEPT ![c] = "done"]
    /\ UNCHANGED <<html, base_url, soup, idx, urls, k, seen, unique_urls, text, returned>>
    /\ UNCHANGED serviceVars

Next ==
    \E c \in Calls :
        \/ Decompose(c)
        \/ LinkStep(c)
        \/ LinksDone(c)
        \/ DedupStep(c)
        \/ ExtractText(c)
        \/ Clean(c)

Spec == Init /\ [][Next]_vars

SpecText == InitText /\ [][Next]_vars

SpecFilter == InitFilter /\ [][Next]_vars

(***************************************************************************)
(* The function run from line 56 to line 99 with nothing else running.     *)
(***************************************************************************)
RECURSIVE AloneLinks(_, _, _)
RECURSIVE AloneLinksNext(_, _, _, _)
\* the loop of lines 64-82 over the anchors left, urls so far in acc
AloneLinks(base, anchors, acc) ==
    IF anchors = <<>> THEN [raised |-> FALSE, urls |-> acc]
    ELSE AloneLinksNext(base, anchors, acc, LinkOutcome(base, anchors[1].val))

AloneLinksNext(base, anchors, acc, o) ==
    IF o.kind = "raise" THEN [raised |-> TRUE, urls |-> <<>>]
    ELSE AloneLinks(base, Tail(anchors), IF o.kind = "append" THEN Append(acc, o.url) ELSE acc)

\* the loop of lines 85-90
RECURSIVE AloneUnique(_, _, _)
AloneUnique(us, seenSoFar, acc) ==
    IF us = <<>> THEN acc
    ELSE AloneUnique(Tail(us), seenSoFar \cup {us[1]},
                     IF us[1] \notin seenSoFar THEN Append(acc, us[1]) ELSE acc)

AloneResult(l, s) ==
    IF l.raised THEN [raised |-> TRUE, links |-> <<>>, text |-> ""]
    ELSE [raised |-> FALSE, links |-> AloneUnique(l.urls, {}, <<>>),
          text |-> CleanText(GetText(s))]

AloneOn(base, s) == AloneResult(AloneLinks(base, FindAnchors(s), <<>>), s)

\* extract_urls_and_text(doc, base), uninterrupted
RunAlone(doc, base) == AloneOn(base, Decomposed(doc))

(***************************************************************************)
(* Several invocations, interleaved step by step, each invoked again with  *)
(* new arguments once it has ended.                                        *)
(***************************************************************************)
\* the arguments of the interleaved invocations
Args ==
    {[on |-> TRUE, html |-> <<Anchor("/p", "x"), Anchor("https://h/p", "x")>>,
      base |-> "https://h"],
     [on |-> TRUE, html |-> <<Anchor("//[", "x")>>, base |-> "https://h"],
     [on |-> TRUE, html |-> <<Anchor("#f", "x"), Element("script", "y"),
                              Element("p", " x \n\n y ")>>, base |-> ""],
     [on |-> TRUE, html |-> <<>>, base |-> "https://h/d/e"]}

InitTwo == \E args \in [Calls -> Args] : InitWith(args)

\* how an invocation ended: the ValueError, or the pair of line 99
Outcome(c) ==
    IF pc[c] = "raised"
    THEN [raised |-> TRUE, links |-> <<>>, text |-> ""]
    ELSE [raised |-> FALSE, links |-> unique_urls[c], text |-> clean_text[c]]

Ended(c) == pc[c] \in {"done", "raised"}

\* the caller takes the outcome and calls the function again
Reinvoke(c) ==
    /\ Ended(c)
    /\ returned' = returned \cup
           {[html |-> html[c], base |-> base_url[c], outcome |-> Outcome(c)]}
    /\ \E a \in Args :
           /\ pc' = [pc EXCEPT ![c] = "decompose"]
           /\ html' = [html EXCEPT ![c] = a.html]
           /\ base_url' = [base_url EXCEPT ![c] = a.base]
           /\ soup' = [soup EXCEPT ![c] = a.html]
    /\ idx' = [idx EXCEPT ![c] = 1]
    /\ urls' = [urls EXCEPT ![c] = <<>>]
    /\ k' = [k EXCEPT ![c] = 1]
    /\ seen' = [seen EXCEPT ![c] = {}]
    /\ unique_urls' = [unique_urls EXCEPT ![c] = <<>>]
    /\ text' = [text EXCEPT ![c] = ""]
    /\ clean_text' = [clean_text EXCEPT ![c] = ""]
    /\ UNCHANGED serviceVars

NextTwo == Next \/ \E c \in Calls : Reinvoke(c)

SpecTwo == InitTwo /\ [][NextTwo]_vars

(***************************************************************************)
(* api.py: the request model, the helpers and the exceptions.              *)
(***************************************************************************)
\* the Field declarations of lines 186-196
DefaultFetchUsing == "selenium"

FetchUsingValues == {"playwright", "selenium"}

DefaultSleepTime == 2

MinSleepTime == 0

MaxSleepTime == 30

DefaultTimeout == 10

MinTimeout == 1

MaxTimeout == 60

DefaultHeadless == TRUE

DefaultWaitType == "sleep"

WaitTypeValues == {"sleep", "idle", "none", "selector", "text"}

\* the value of a field: the one given, or the default
FieldOr(f, default) == IF f.given THEN f.v ELSE default

\* variant: sleep_time has no upper limit
SleepTimeOkNoUpper(v) == v >= MinSleepTime

\* ge=0, le=30
SleepTimeOk(v) == v >= MinSleepTime /\ v <= MaxSleepTime

\* ge=1, le=60
TimeoutOk(v) == v >= MinTimeout /\ v <= MaxTimeout

\* pydantic accepts the body
Validates(b) ==
    /\ b.url.given
    /\ FieldOr(b.fetch_using, DefaultFetchUsing) \in FetchUsingValues
    /\ SleepTimeOk(FieldOr(b.sleep_time, DefaultSleepTime))
    /\ TimeoutOk(FieldOr(b.timeout, DefaultTimeout))
    /\ FieldOr(b.wait_type, DefaultWaitType) \in WaitTypeValues

\* the model built from an accepted body
ScrapeRequest(b) ==
    [url |-> b.url.v,
     fetch_using |-> FieldOr(b.fetch_using, DefaultFetchUsing),
     sleep_time |-> FieldOr(b.sleep_time, DefaultSleepTime),
     timeout |-> FieldOr(b.timeout, DefaultTimeout),
     headless |-> FieldOr(b.headless, DefaultHeadless),
     wait_type |-> FieldOr(b.wait_type, DefaultWaitType),
     wait_selector |-> FieldOr(b.wait_selector, NoneSelector)]

\* an HTTPException as the answer FastAPI gives for it
HTTPException(status_code, detail) ==
    [status |-> status_code, detail |-> detail, url |-> "", urls |-> <<>>, text |-> "",
     fetch_using |-> ""]

\* the answer to a body pydantic rejects
RequestValidationError == HTTPException(422, "validation error")

\* lines 233-242
InvalidURLError(url) ==
    HTTPException(400, "Invalid URL: " \o url \o ". URL must start with http:// or https://")

\* lines 245-254
ScrapingTimeoutError(timeout) ==
    HTTPException(504, "Scraping timeout after " \o ToString(timeout) \o " seconds")

\* lines 257-266
NetworkError(message) == HTTPException(502, "Network error: " \o message)

\* variant: the message is left out of the detail
ParsingErrorPlain(message) == HTTPException(500, "HTML parsing error")

\* lines 269-278
ParsingError(message) == HTTPException(500, "HTML parsing error: " \o message)

\* lines 282-297: the answer to an exception that is not an HTTPException
global_exception_handler(exc) == HTTPException(500, "Internal server error")

\* line 311 on the result of urlparse
ValidateParsed(parsed) ==
    IF parsed.err THEN "ValueError"
    ELSE IF parsed.scheme = "" \/ parsed.scheme \notin {"http", "https"} THEN "InvalidURLError"
    ELSE "returns"

\* validate_url: it returns, or raises InvalidURLError, or urlparse raises ValueError
validate_url(url) == ValidateParsed(Urlparse(url, ""))

\* variant: the default of mapping.get is NONE
MapWaitTypeDefaultNone(wait_type) ==
    CASE wait_type = "sleep" -> "ScraperWaitType.SLEEP"
      [] wait_type = "idle" -> "ScraperWaitType.IDLE"
      [] wait_type = "none" -> "ScraperWaitType.NONE"
      [] wait_type = "selector" -> "ScraperWaitType.SELECTOR"
      [] wait_type = "text" -> "ScraperWaitType.TEXT"
      [] OTHER -> "ScraperWaitType.NONE"

\* map_wait_type: the member of ScraperWaitType
map_wait_type(wait_type) ==
    CASE wait_type = "sleep" -> "ScraperWaitType.SLEEP"
      [] wait_type = "idle" -> "ScraperWaitType.IDLE"
      [] wait_type = "none" -> "ScraperWaitType.NONE"
      [] wait_type = "selector" -> "ScraperWaitType.SELECTOR"
      [] wait_type = "text" -> "ScraperWaitType.TEXT"
      [] OTHER -> "ScraperWaitType.SLEEP"

(***************************************************************************)
(* api.py lines 334-384: the reducer the handler calls.                    *)
(***************************************************************************)
\* the test of line 358 on the attribute value
ApiSkipped(href) ==
    \/ href = ""
    \/ StartsWith(href, "#")
    \/ StartsWith(href, "javascript:")
    \/ StartsWith(href, "mailto:")

\* lines 356-367 for one anchor
ApiLinkOutcome(base, href) ==
    IF ApiSkipped(href) THEN [kind |-> "skip", url |-> ""]
    ELSE JoinedOutcome(Urljoin(base, href))

RECURSIVE ApiLinks(_, _, _)
RECURSIVE ApiLinksNext(_, _, _, _)
\* the loop of lines 354-367 over the anchors left, urls so far in acc
ApiLinks(base, anchors, acc) ==
    IF anchors = <<>> THEN [raised |-> FALSE, urls |-> acc]
    ELSE ApiLinksNext(base, anchors, acc, ApiLinkOutcome(base, anchors[1].val))

ApiLinksNext(base, anchors, acc, o) ==
    IF o.kind = "raise" THEN [raised |-> TRUE, urls |-> <<>>]
    ELSE ApiLinks(base, Tail(anchors), IF o.kind = "append" THEN Append(acc, o.url) ELSE acc)

\* lines 370-384
ApiResult(l, s) ==
    IF l.raised THEN [raised |-> TRUE, links |-> <<>>, text |-> ""]
    ELSE [raised |-> FALSE, links |-> AloneUnique(l.urls, {}, <<>>),
          text |-> CleanText(GetText(s))]

ApiOn(base, s) == ApiResult(ApiLinks(base, FindAnchors(s), <<>>), s)

\* api.extract_urls_and_text(doc, base)
ApiExtractUrlsAndText(doc, base) == ApiOn(base, Decomposed(doc))

(***************************************************************************)
(* api.py lines 418-529: POST /scrape.                                     *)
(***************************************************************************)
\* sub in s
SubstringOf(sub, s) ==
    \E i \in 1..(Len(s) - Len(sub) + 1) : SubSeq(s, i, i + Len(sub) - 1) = sub

\* variant: the network test of line 519 comes before the timeout test
ClassifyNetworkFirst(msg, error_msg, timeout) ==
    IF SubstringOf("network", error_msg) \/ SubstringOf("connection", error_msg)
    THEN NetworkError(msg)
    ELSE IF SubstringOf("timeout", error_msg) \/ SubstringOf("timed out", error_msg)
    THEN ScrapingTimeoutError(timeout)
    ELSE IF SubstringOf("parse", error_msg) \/ SubstringOf("html", error_msg)
    THEN ParsingError(msg)
    ELSE HTTPException(500, "Unexpected error: " \o msg)

\* lines 515-529 on the lower-cased message
ClassifyLower(msg, error_msg, timeout) ==
    IF SubstringOf("timeout", error_msg) \/ SubstringOf("timed out", error_msg)
    THEN ScrapingTimeoutError(timeout)
    ELSE IF SubstringOf("network", error_msg) \/ SubstringOf("connection", error_msg)
    THEN NetworkError(msg)
    ELSE IF SubstringOf("parse", error_msg) \/ SubstringOf("html", error_msg)
    THEN ParsingError(msg)
    ELSE HTTPException(500, "Unexpected error: " \o msg)

\* lines 509-529: the answer to an exception that is not an HTTPException
Classify(msg, timeout) == ClassifyLower(msg, Lower(msg), timeout)

\* variant: only None counts as a missing wait_selector
IsNone(ws) == ws.null

\* not request.wait_selector
NotTruthy(ws) == ws.null \/ ws.s = ""

\* lines 437-443, v the outcome of validate_url
ValidateOutcome(req, v) ==
    IF v = "ValueError" THEN global_exception_handler(v)
    ELSE IF v = "InvalidURLError" THEN InvalidURLError(req.url)
    ELSE IF req.wait_type \in {"selector", "text"} /\ NotTruthy(req.wait_selector)
    THEN HTTPException(400, "wait_selector is required when wait_type is '"
                                \o req.wait_type \o "'")
    ELSE NoResponse

\* lines 497-503; processing_time is not modelled
ScrapeResponse(url, us, t, fetch_using) ==
    [status |-> 200, detail |-> "", url |-> url, urls |-> us, text |-> t,
     fetch_using |-> fetch_using]

\* variant: the test of lines 489-491 left out
ExtractedUnchecked(req, r) ==
    IF r.raised THEN Classify("Invalid IPv6 URL", req.timeout)
    ELSE ScrapeResponse(req.url, r.links, r.text, req.fetch_using)

\* lines 486-503, r the outcome of the reducer
Extracted(req, r) ==
    IF r.raised THEN Classify("Invalid IPv6 URL", req.timeout)
    ELSE IF r.text = "" \/ Strip(r.text) = ""
    THEN ParsingError("Text extraction resulted in empty content")
    ELSE ScrapeResponse(req.url, r.links, r.text, req.fetch_using)

\* lines 481-503
ReduceOutcome(req, l) ==
    IF l.none \/ l.items = <<>> \/ l.items[1] = <<>>
    THEN ParsingError("No content was fetched from the URL")
    ELSE Extracted(req, ApiExtractUrlsAndText(l.items[1], req.url))

\* FastAPI builds the ScrapeRequest from the body, or answers 422
ParseBody ==
    /\ hpc = "parse"
    /\ IF Validates(body)
       THEN /\ request' = ScrapeRequest(body)
            /\ hpc' = "validate"
            /\ UNCHANGED response
       ELSE /\ response' = RequestValidationError
            /\ hpc' = "responded"
            /\ UNCHANGED request
    /\ UNCHANGED <<body, page, fetch_call, html_list, helperVars, driverVars, reducerVars>>

ValidateApply(o) ==
    /\ response' = o
    /\ hpc' = IF o = NoResponse THEN "fetch" ELSE "responded"

\* lines 437-443
Validate ==
    /\ hpc = "validate"
    /\ ValidateApply(ValidateOutcome(request, validate_url(request.url)))
    /\ UNCHANGED <<body, page, request, fetch_call, html_list, helperVars, driverVars, reducerVars>>

\* lines 454-464: fetch_url is called; what it raises is answered by lines 509-529
Fetch ==
    /\ hpc = "fetch"
    /\ fetch_call' = [called |-> TRUE, url |-> request.url,
                      fetch_using |-> request.fetch_using,
                      sleep_time |-> request.sleep_time, timeout |-> request.timeout,
                      headless |-> request.headless,
                      wait_type |-> map_wait_type(request.wait_type),
                      wait_selector |-> request.wait_selector]
    /\ IF page.raises
       THEN /\ response' = Classify(page.msg, request.timeout)
            /\ hpc' = "responded"
            /\ UNCHANGED html_list
       ELSE /\ html_list' = page.list
            /\ hpc' = "reduce"
            /\ UNCHANGED response
    /\ UNCHANGED <<body, page, request, helperVars, driverVars, reducerVars>>

\* lines 481-529
Reduce ==
    /\ hpc = "reduce"
    /\ response' = ReduceOutcome(request, html_list)
    /\ hpc' = "responded"
    /\ UNCHANGED <<body, page, request, fetch_call, html_list, helperVars, driverVars, reducerVars>>

NextScrape == ParseBody \/ Validate \/ Fetch \/ Reduce

\* a body with these fields
Body(url, fetch_using, sleep_time, timeout, headless, wait_type, wait_selector) ==
    [url |-> url, fetch_using |-> fetch_using, sleep_time |-> sleep_time,
     timeout |-> timeout, headless |-> headless, wait_type |-> wait_type,
     wait_selector |-> wait_selector]

\* a request with body b has arrived, and fetch_url will do what pg says
InitRequest(b, pg) ==
    /\ ReducerInit([c \in Calls |-> NotCalled])
    /\ body = b
    /\ page = pg
    /\ hpc = "parse"
    /\ request = NoRequest
    /\ fetch_call = NoFetchCall
    /\ html_list = NoneList
    /\ response = NoResponse
    /\ call = NoHelperCall
    /\ result = NoResult
    /\ DriverIdle

\* the nodes of the fetched documents
PageNodes ==
    {Anchor("tel:1", "x"), Anchor("tel://[", ""), Anchor("/p", ""), Anchor("#f", ""),
     Element("p", " t "), Element("script", "y")}

PageDocs == UNION {[1..n -> PageNodes] : n \in 0..MaxNodes}

\* messages of the exceptions fetch_url raises
Messages ==
    {"Timeout 30000ms exceeded", "net::ERR_CONNECTION_REFUSED", "cannot parse", "boom",
     "Text extraction resulted in empty content", "No content was fetched from the URL",
     "Network timeout", "Connection timed out", "bad HTML on connection", "parse timeout",
     "no HTML"}

\* what fetch_url does: None, lists of none, one or two documents, an exception
Pages ==
    {Returns(NoneList), Returns(ListOf(<<>>))}
    \cup {Returns(ListOf(<<d>>)) : d \in PageDocs}
    \cup {Returns(ListOf(<<d, <<Element("p", "u")>>>>)) :
             d \in {<<>>, <<Element("script", "y")>>, <<Anchor("/p", "x")>>}}
    \cup {Raises(m) : m \in Messages}

ScrapeBodies ==
    {Body(Given(u), f, Omitted(0), Omitted(0), Omitted(FALSE), Omitted(""),
          Omitted(NoneSelector)) :
        u \in {"https://h", "http://h/d/e", "ftp://a"},
        f \in {Omitted(""), Given("playwright")}}

InitScrape == \E b \in ScrapeBodies, pg \in Pages : InitRequest(b, pg)

SpecScrape == InitScrape /\ [][NextScrape]_vars

\* the fields of the bodies of the requests
BodyUrls ==
    {Omitted("")} \cup {Given(u) : u \in {"https://h", "HTTP://h", "http:h", "ftp://a", "www.h",
                                      "", "http://["}}

BodyFetchUsing == {Omitted(""), Given("playwright"), Given("curl")}

BodySleepTimes == {Omitted(0), Given(-1), Given(0), Given(30), Given(31)}

BodyTimeouts == {Omitted(0), Given(0), Given(1), Given(60), Given(61)}

BodyHeadless == {Omitted(FALSE), Given(FALSE)}

BodyWaitTypes == {Omitted("")} \cup {Given(w) : w \in WaitTypeValues \cup {"invalid"}}

BodyWaitSelectors == {Omitted(NoneSelector), Given(NoneSelector), Given(Selector("")), Given(Selector("s"))}

RequestBodies ==
    {Body(u, f, st, t, h, w, ws) :
        u \in BodyUrls, f \in BodyFetchUsing, st \in BodySleepTimes, t \in BodyTimeouts,
        h \in BodyHeadless, w \in BodyWaitTypes, ws \in BodyWaitSelectors}

RequestPages == {Returns(ListOf(<<<<Anchor("/p", "x")>>>>)), Raises("boom")}

InitBodies == \E b \in RequestBodies, pg \in RequestPages : InitRequest(b, pg)

SpecRequest == InitBodies /\ [][NextScrape]_vars

(***************************************************************************)
(* Calls of the helper functions: utils.py lines 4-10, api.py lines        *)
(* 315-331.                                                                *)
(***************************************************************************)
Return(v) == [kind |-> "return", value |-> v]

Raise(exc) == [kind |-> "raise", value |-> exc]

\* variant: the slice starts at the head of the list
SliceFromHead(items, a, b) == SubSeq(items, 1, Min2(b, Len(items)))

\* items[a:b] for 0 <= a <= b
Slice(items, a, b) == SubSeq(items, a + 1, Min2(b, Len(items)))

\* [items[i : i + chunk_size] for i in range(i, len(items), chunk_size)]
RECURSIVE Chunks(_, _, _)
Chunks(items, chunk_size, i) ==
    IF i >= Len(items) THEN <<>>
    ELSE <<Slice(items, i, i + chunk_size)>> \o Chunks(items, chunk_size, i + chunk_size)

\* variant: a chunk_size that is not positive yields the empty list
ChunkListEmptyOnInvalid(items, chunk_size) ==
    IF chunk_size <= 0 THEN Return(<<>>)
    ELSE Return(Chunks(items, chunk_size, 0))

\* utils.py lines 4-10
chunk_list(items, chunk_size) ==
    IF chunk_size <= 0 THEN Raise("ValueError: chunk_size must be positive")
    ELSE Return(Chunks(items, chunk_size, 0))

RECURSIVE Gcd(_, _)
\* the greatest common divisor of a >= 0 and b >= 0
Gcd(a, b) == IF b = 0 THEN a ELSE Gcd(b, a % b)

Abs(n) == IF n < 0 THEN -n ELSE n

\* the number n / d for d > 0, in lowest terms
Reduced(n, d, g) == [num |-> n \div g, den |-> d \div g]

\* the number a / b for b # 0, the sign carried by the numerator
Quotient(a, b) ==
    IF b < 0 THEN Reduced(-a, -b, Gcd(Abs(a), Abs(b)))
    ELSE Reduced(a, b, Gcd(Abs(a), Abs(b)))

\* a / b: the quotient, or ZeroDivisionError
TrueDiv(a, b) == IF b = 0 THEN Raise("ZeroDivisionError") ELSE Return(Quotient(a, b))

\* 0.0
Zero == [num |-> 0, den |-> 1]

\* variant: no except clause
SafeDivideUncaught(r) == r

\* utils.py lines 17-20 on the outcome of a / b
SafeDivideCaught(r) ==
    IF r.kind = "raise" /\ r.value = "ZeroDivisionError" THEN Return(Zero) ELSE r

\* utils.py lines 13-20
safe_divide(a, b) == SafeDivideCaught(TrueDiv(a, b))

ChunkListCall ==
    /\ call.fn = "chunk_list"
    /\ result = NoResult
    /\ result' = chunk_list(call.args[1], call.args[2])
    /\ UNCHANGED <<call, handlerVars, driverVars, reducerVars>>

MapWaitTypeCall ==
    /\ call.fn = "map_wait_type"
    /\ result = NoResult
    /\ result' = Return(map_wait_type(call.args[1]))
    /\ UNCHANGED <<call, handlerVars, driverVars, reducerVars>>

SafeDivideCall ==
    /\ call.fn = "safe_divide"
    /\ result = NoResult
    /\ result' = safe_divide(call.args[1], call.args[2])
    /\ UNCHANGED <<call, handlerVars, driverVars, reducerVars>>

NextHelpers == ChunkListCall \/ MapWaitTypeCall \/ SafeDivideCall

MaxItems == 4

MaxChunkSize == 5

\* the lists chunk_list is called with
ItemLists == UNION {[1..n -> {"a", "b"}] : n \in 0..MaxItems}

ChunkSizes == (-2)..MaxChunkSize

MaxNumber == 4

\* the numbers safe_divide is called with
Numbers == (-MaxNumber)..MaxNumber

MaxWaitLen == 4

WaitAlphabet == {"i", "d", "l", "e"}

\* the strings map_wait_type is called with: the five names, variations of
\* them, and every string of up to MaxWaitLen letters of 'idle'
WaitStrings ==
    WaitTypeValues
    \cup {"invalid", "SLEEP", "Sleep", " sleep", "sleep ", "selectors", "tex", "None"}
    \cup {JoinStr(f, "") : f \in UNION {[1..n -> WaitAlphabet] : n \in 0..MaxWaitLen}}

HelperCalls ==
    {[fn |-> "chunk_list", args |-> <<items, n>>] : items \in ItemLists, n \in ChunkSizes}
    \cup {[fn |-> "map_wait_type", args |-> <<w>>] : w \in WaitStrings}
    \cup {[fn |-> "safe_divide", args |-> <<a, b>>] : a \in Numbers, b \in Numbers}

InitHelpers ==
    /\ ReducerInit([c \in Calls |-> NotCalled])
    /\ HandlerIdle
    /\ call \in HelperCalls
    /\ result = NoResult
    /\ DriverIdle

SpecHelpers == InitHelpers /\ [][NextHelpers]_vars

(***************************************************************************)
(* The batch scripts scrape_all.py and scrape_urls.py.  Each walks the     *)
(* same list of URLs; what an attempt does is the environment's choice.    *)
(***************************************************************************)
\* urls: scrape_all.py lines 4-29, scrape_urls.py lines 7-32
BatchUrls ==
    <<"https://www.axeptio.eu", "https://opt-out.ferank.eu/fr/install/",
      "https://www.didomi.io", "https://www.lemonde.fr", "https://www.lefigaro.fr",
      "https://www.liberation.fr", "https://www.20minutes.fr", "https://www.carrefour.fr",
      "https://www.fnac.com", "https://www.cdiscount.com", "https://www.laredoute.fr",
      "https://www.service-public.fr", "https://www.ameli.fr", "https://www.impots.gouv.fr",
      "https://www.bnpparibas.com", "https://www.creditagricole.fr",
      "https://www.labanquepostale.fr", "https://www.cookielaw.org/demo",
      "https://www.trustarc.com", "https://www.iubenda.com", "https://www.onetrust.com",
      "https://www.bbc.com", "https://www.cnn.com", "https://www.theguardian.com">>

\* subprocess.run(cmd, check=True): the command exits with 0, exits with another
\* status (CalledProcessError), or cannot be started (an OSError such as
\* FileNotFoundError for a missing uv)
SubprocessRunOutcomes == {"returns", "CalledProcessError", "OSError"}

\* the try block of scrape_url: the page is saved, httpx.get raises, the status
\* is an error (raise_for_status), or the file cannot be written
ScrapeUrlOutcomes == {"saved", "httpx.ConnectError", "httpx.HTTPStatusError", "OSError"}

\* scrape_all.py lines 34 and 41: what the try statement lets through
ScrapeAllPropagates(o) == o \notin {"returns", "CalledProcessError"}

\* scrape_urls.py lines 50 and 72: 'except Exception' lets none of them through
ScrapeUrlPropagates(o) == FALSE

\* scrape_all.py lines 32-43: one pass through the try statement
ScrapeAllAttempt ==
    /\ driver = "scrape_all"
    /\ dpc = "attempt"
    /\ url_index <= Len(BatchUrls)
    /\ attempted' = Append(attempted, BatchUrls[url_index])
    /\ \E o \in SubprocessRunOutcomes :
           /\ outcome' = o
           /\ dpc' = IF ScrapeAllPropagates(o) THEN "raised" ELSE "sleep"
    /\ UNCHANGED <<driver, url_index, handlerVars, helperVars, reducerVars>>

\* scrape_all.py line 45, and the loop takes the next url
ScrapeAllSleep ==
    /\ driver = "scrape_all"
    /\ dpc = "sleep"
    /\ url_index' = url_index + 1
    /\ dpc' = "attempt"
    /\ UNCHANGED <<driver, attempted, outcome, handlerVars, helperVars, reducerVars>>

\* scrape_all.py line 32: the list is exhausted and scrape_all returns
ScrapeAllReturn ==
    /\ driver = "scrape_all"
    /\ dpc = "attempt"
    /\ url_index > Len(BatchUrls)
    /\ dpc' = "returned"
    /\ UNCHANGED <<driver, url_index, attempted, outcome, handlerVars, helperVars, reducerVars>>

\* scrape_urls.py line 77 with lines 49-73: one call of scrape_url
ScrapeUrl ==
    /\ driver = "scrape_urls"
    /\ dpc = "attempt"
    /\ url_index <= Len(BatchUrls)
    /\ attempted' = Append(attempted, BatchUrls[url_index])
    /\ \E o \in ScrapeUrlOutcomes :
           /\ outcome' = o
           /\ dpc' = IF ScrapeUrlPropagates(o) THEN "raised" ELSE "sleep"
    /\ UNCHANGED <<driver, url_index, handlerVars, helperVars, reducerVars>>

\* scrape_urls.py line 78, and the loop takes the next url
MainSleep ==
    /\ driver = "scrape_urls"
    /\ dpc = "sleep"
    /\ url_index' = url_index + 1
    /\ dpc' = "attempt"
    /\ UNCHANGED <<driver, attempted, outcome, handlerVars, helperVars, reducerVars>>

\* scrape_urls.py line 76: the list is exhausted and main returns
MainReturn ==
    /\ driver = "scrape_urls"
    /\ dpc = "attempt"
    /\ url_index > Len(BatchUrls)
    /\ dpc' = "returned"
    /\ UNCHANGED <<driver, url_index, attempted, outcome, handlerVars, helperVars, reducerVars>>

NextBatch ==
    \/ ScrapeAllAttempt
    \/ ScrapeAllSleep
    \/ ScrapeAllReturn
    \/ ScrapeUrl
    \/ MainSleep
    \/ MainReturn

\* one of the scripts has been started
InitBatch ==
    /\ ReducerInit([c \in Calls |-> NotCalled])
    /\ HandlerIdle
    /\ call = NoHelperCall
    /\ result = NoResult
    /\ driver \in {"scrape_all", "scrape_urls"}
    /\ dpc = "attempt"
    /\ url_index = 1
    /\ attempted = <<>>
    /\ outcome = ""

SpecBatch == InitBatch /\ [][NextBatch]_vars

(***************************************************************************)
(* Properties of the returned pair (unique_urls, clean_text).              *)
(***************************************************************************)
Returned(c) == pc[c] = "done"

\* the node at position i of the document as parsed is an <a> with an href that
\* the loop appends as u
IsLinkOf(c, i, u) ==
    /\ html[c][i].tag = "a"
    /\ html[c][i].attr = "href"
    /\ LinkOutcome(base_url[c], html[c][i].val) = [kind |-> "append", url |-> u]

\* the position of the first anchor that yields u
FirstPos(c, u) ==
    CHOOSE i \in 1..Len(html[c]) :
        IsLinkOf(c, i, u) /\ \A j \in 1..(i - 1) : ~IsLinkOf(c, j, u)

\* C1: the returned links hold no string twice, and they stand in the order of
\* the first anchors (in document order) that yield them
C1_DedupFirstOccurrence ==
    \A c \in Calls : Returned(c) =>
        /\ \A i, j \in 1..Len(unique_urls[c]) :
               i < j => unique_urls[c][i] # unique_urls[c][j]
        /\ \A i \in 1..Len(unique_urls[c]) :
               \E n \in 1..Len(html[c]) : IsLinkOf(c, n, unique_urls[c][i])
        /\ \A i, j \in 1..Len(unique_urls[c]) :
               i < j => FirstPos(c, unique_urls[c][i]) < FirstPos(c, unique_urls[c][j])

\* three anchors, the third resolving to the URL of the first from another href
C1_Witness ==
    /\ Returned(1)
    /\ Len(html[1]) = 3
    /\ html[1][1].val = "/p" /\ html[1][3].val = "https://h/p"
    /\ Len(urls[1]) = 3
    /\ urls[1][1] = urls[1][3]
    /\ unique_urls[1] = <<urls[1][1], urls[1][2]>>

\* C2: every returned link has scheme http or https
C2_SchemeHttp ==
    \A c \in Calls : Returned(c) =>
        \A i \in 1..Len(unique_urls[c]) :
            /\ Urlparse(unique_urls[c][i], "").scheme \in {"http", "https"}
            /\ \E n \in {5, 6} : Lower(SubSeq(unique_urls[c][i], 1, n)) \in {"http:", "https:"}

\* an ftp:// href passed the prefix test, and is not among the returned links
C2_Witness ==
    /\ Returned(1)
    /\ \E n \in 1..Len(html[1]) :
           /\ html[1][n] = Anchor("ftp://a", "x")
           /\ ~Skipped(html[1][n].val)
    /\ Len(unique_urls[1]) = 1
    /\ \A i \in 1..Len(unique_urls[1]) : unique_urls[1][i] # "ftp://a"

\* the four literal prefixes of spec section 4.1
HasFilteredPrefix(href) ==
    \E p \in {"#", "javascript:", "mailto:", "tel:"} :
        Len(href) >= Len(p) /\ SubSeq(href, 1, Len(p)) = p

\* C3: the iteration over an anchor whose raw href begins with "#",
\* "javascript:", "mailto:" or "tel:" appends nothing to urls
C3_PrefixFiltered ==
    [][\A c \in Calls :
          (/\ pc[c] = "links"
           /\ idx[c] <= Len(FindAnchors(soup[c]))
           /\ HasFilteredPrefix(FindAnchors(soup[c])[idx[c]].val))
          => urls'[c] = urls[c]]_vars

\* a "#f" href has been passed over though it resolves to an https URL
C3_Witness ==
    /\ pc[1] = "links"
    /\ idx[1] = 2
    /\ FindAnchors(soup[1])[1].val = "#f"
    /\ urls[1] = <<>>
    /\ Urljoin(base_url[1], "#f") = [err |-> FALSE, url |-> "https://h#f"]
    /\ Urlparse("https://h#f", "").scheme = "https"

Links(c) == {unique_urls[c][i] : i \in 1..Len(unique_urls[c])}

AnchorHrefs(c) ==
    {html[c][n].val : n \in {m \in 1..Len(html[c]) :
                                html[c][m].tag = "a" /\ html[c][m].attr = "href"}}

\* the scheme an href is written with ("" when it is written with none)
WrittenScheme(href) ==
    IF /\ Find(href, ":") > 1
       /\ Contains(LowerLetters \o UpperLetters, CharAt(href, 1))
       /\ AllIn(SubSeq(href, 1, Find(href, ":") - 1), SchemeChars)
    THEN SubSeq(href, 1, Find(href, ":") - 1)
    ELSE ""

\* what follows "scheme:"
AfterScheme(href) == From(href, Len(WrittenScheme(href)) + 2)

\* scheme://authority..., the authority not empty
IsAbsoluteHref(href) ==
    /\ WrittenScheme(href) # ""
    /\ StartsWith(AfterScheme(href), "//")
    /\ Len(AfterScheme(href)) > 2
    /\ CharAt(AfterScheme(href), 3) \notin {"/", "?", "#"}

IsHttpHref(href) == IsAbsoluteHref(href) /\ Lower(WrittenScheme(href)) \in {"http", "https"}

\* the form urlunparse writes: lower-case scheme, no delimiter left with nothing
\* after it
InUnparsedForm(href) ==
    /\ WrittenScheme(href) = Lower(WrittenScheme(href))
    /\ CharAt(href, Len(href)) \notin {"?", "#", ";"}
    /\ \A i \in 1..(Len(href) - 1) : SubSeq(href, i, i + 1) \notin {"?#", ";?", ";#"}

\* href without its trailing "?" or "#"
WithoutEmptyDelimiter(href) ==
    IF CharAt(href, Len(href)) \in {"?", "#"} THEN SubSeq(href, 1, Len(href) - 1) ELSE href

\* scheme://authority of an absolute URL
Origin(url) ==
    SubSeq(url, 1, Len(WrittenScheme(url)) + 1 + NetlocEnd(AfterScheme(url)) - 1)

\* the path of an absolute URL up to and with its last "/", "/" when it has no path
Directory(url) ==
    IF RFindFrom(url, "/", Len(url)) > Len(Origin(url))
    THEN SubSeq(url, Len(Origin(url)) + 1, RFindFrom(url, "/", Len(url)))
    ELSE "/"

\* a relative reference made of plain path segments only
IsPlainRelative(href) ==
    /\ href # ""
    /\ AllIn(href, LowerLetters \o "/")
    /\ \A i \in 1..(Len(href) - 1) : SubSeq(href, i, i + 1) # "//"

\* C4 as stated: every absolute href that is kept appears in links unchanged
C4_AbsoluteUnchanged ==
    \A c \in Calls : Returned(c) =>
        \A href \in AnchorHrefs(c) :
            (IsHttpHref(href) /\ ~HasFilteredPrefix(href)) => href \in Links(c)

\* C4, amended: an absolute http(s) href is in links unchanged when its scheme is
\* not that of base_url or when it is written in urlunparse's form, and otherwise
\* as urlunparse rewrites it; a relative path is in links merged with the scheme,
\* authority and directory of an http(s) base_url
C4_Resolved ==
    \A c \in Calls : Returned(c) =>
        \A href \in AnchorHrefs(c) :
            /\ (/\ IsHttpHref(href)
                /\ \/ Lower(WrittenScheme(href)) # Lower(WrittenScheme(base_url[c]))
                   \/ InUnparsedForm(href))
               => href \in Links(c)
            /\ (/\ IsHttpHref(href)
                /\ Lower(WrittenScheme(href)) = Lower(WrittenScheme(base_url[c]))
                /\ WrittenScheme(href) = Lower(WrittenScheme(href)))
               => WithoutEmptyDelimiter(href) \in Links(c)
            /\ (IsPlainRelative(href) /\ IsHttpHref(base_url[c]))
               => /\ StartsWith(href, "/") => (Origin(base_url[c]) \o href) \in Links(c)
                  /\ ~StartsWith(href, "/") =>
                         (Origin(base_url[c]) \o Directory(base_url[c]) \o href) \in Links(c)
            /\ (href = "/p" /\ base_url[c] = "https://h") => "https://h/p" \in Links(c)

\* a relative path merged with the directory of the base, an absolute-path one
\* with its origin, an absolute href rewritten and one unchanged
C4_Witness ==
    /\ Returned(1)
    /\ base_url[1] = "https://h/d/e"
    /\ AnchorHrefs(1) = {"q", "/p", "https://a?"}
    /\ unique_urls[1] = <<"https://h/d/q", "https://h/p", "https://a">>

\* s occurs in t as a substring
IsSubstring(s, t) ==
    \E i \in 1..(Len(t) - Len(s) + 1) : SubSeq(t, i, i + Len(s) - 1) = s

ScriptOrStyle(n) == n.tag \in {"script", "style"}

\* the stripped, non-empty lines of the text children outside script and style
VisibleLines(c) ==
    {Strip(line) : line \in UNION {{SplitStr(html[c][n].text, "\n")[i] :
                                        i \in 1..Len(SplitStr(html[c][n].text, "\n"))} :
                                    n \in {m \in 1..Len(html[c]) : ~ScriptOrStyle(html[c][m])}}}
    \ {""}

TextLines(c) ==
    {SplitStr(clean_text[c], "\n")[i] : i \in 1..Len(SplitStr(clean_text[c], "\n"))}

\* C5 as stated: the content of a script or style element is never a substring of
\* the returned text
C5_ContentNeverSubstring ==
    \A c \in Calls : Returned(c) =>
        \A n \in 1..Len(html[c]) :
            (ScriptOrStyle(html[c][n]) /\ html[c][n].text # "")
            => ~IsSubstring(html[c][n].text, clean_text[c])

\* C5, amended: script and style content contributes nothing to the returned text:
\* every line of it is a stripped line of a text node outside script and style
C5_NoScriptContribution ==
    \A c \in Calls : Returned(c) =>
        /\ clean_text[c] # "" => TextLines(c) \subseteq VisibleLines(c)
        /\ clean_text[c] = "" => VisibleLines(c) = {}

\* a document with script, style and visible text has been reduced
C5_Witness ==
    /\ Returned(1)
    /\ html[1] = <<Element("style", "s"), Element("p", " x \n\n y "), Element("script", "z")>>
    /\ clean_text[1] = "x\ny"

\* C6: the returned text has no empty or whitespace-only line, no line with
\* leading or trailing whitespace, no two consecutive newlines and no newline at
\* either end (the empty text has no lines)
C6_LinesClean ==
    \A c \in Calls : Returned(c) =>
        \/ clean_text[c] = ""
        \/ /\ \A line \in TextLines(c) :
                  /\ line # ""
                  /\ \E i \in 1..Len(line) : CharAt(line, i) \notin Whitespace
                  /\ CharAt(line, 1) \notin Whitespace
                  /\ CharAt(line, Len(line)) \notin Whitespace
           /\ ~IsSubstring("\n\n", clean_text[c])
           /\ CharAt(clean_text[c], 1) # "\n"
           /\ CharAt(clean_text[c], Len(clean_text[c])) # "\n"

\* get_text left padded lines and an empty line, which the clean-up removed
C6_Witness ==
    /\ Returned(1)
    /\ text[1] = "x\nx \n\n y"
    /\ clean_text[1] = "x\nx\ny"

\* no <a> element and no text child outside script and style
NothingVisible(doc) ==
    \A n \in 1..Len(doc) :
        /\ doc[n].tag # "a"
        /\ ScriptOrStyle(doc[n]) \/ doc[n].text = ""

\* C7: a document with no anchors and no visible text nodes yields ([], "") and
\* never raises, whatever base_url is
C7_EmptyResult ==
    \A c \in Calls : (pc[c] # "idle" /\ NothingVisible(html[c])) =>
        /\ pc[c] # "raised"
        /\ pc[c] \in {"decompose", "links"} => idx[c] = 1 /\ urls[c] = <<>>
        /\ Returned(c) => unique_urls[c] = <<>> /\ clean_text[c] = ""

\* a document with script content and an image only has returned, under a
\* base_url that urlsplit rejects
C7_Witness ==
    /\ Returned(1)
    /\ html[1] = <<Element("script", "y"), RefElement("img", "src", "https://i")>>
    /\ base_url[1] = "http://["
    /\ unique_urls[1] = <<>>
    /\ clean_text[1] = ""

\* C8 as stated: no invocation raises
C8_NeverRaises == \A c \in Calls : pc[c] # "raised"

\* C9: every returned link is the resolution of the href of an <a> element; a
\* URL held only by another element's src or href is not returned
C9_AnchorsOnly ==
    \A c \in Calls : Returned(c) =>
        /\ \A u \in Links(c) :
               \E n \in 1..Len(html[c]) :
                   /\ html[c][n].tag = "a"
                   /\ html[c][n].attr = "href"
                   /\ Urljoin(base_url[c], html[c][n].val).url = u
        /\ \A n \in 1..Len(html[c]) :
               (/\ html[c][n].tag # "a"
                /\ html[c][n].attr # ""
                /\ \A href \in AnchorHrefs(c) :
                       Urljoin(base_url[c], href).url # Urljoin(base_url[c], html[c][n].val).url)
               => html[c][n].val \notin Links(c)

\* an <img src>, a <link href> and an anchor: only the anchor's URL is returned
C9_Witness ==
    /\ Returned(1)
    /\ html[1] = <<RefElement("img", "src", "https://i"), RefElement("link", "href", "https://l"),
                   Anchor("https://h/p", "x")>>
    /\ unique_urls[1] = <<"https://h/p">>

\* the argument and outcome of the invocations that have ended, those still
\* standing at their end included
AllReturned ==
    returned \cup {[html |-> html[c], base |-> base_url[c], outcome |-> Outcome(c)] :
                      c \in {d \in Calls : Ended(d)}}

\* C10: two invocations with the same (html, base_url) end the same way,
\* whatever ran in between or beside them
C10_Deterministic ==
    \A r1, r2 \in AllReturned :
        (r1.html = r2.html /\ r1.base = r2.base) => r1.outcome = r2.outcome

\* the same arguments were used by an earlier invocation, then other arguments
\* ran, and an invocation with the first arguments has returned again
C10_Witness ==
    /\ Cardinality(returned) >= 2
    /\ Returned(1)
    /\ Len(unique_urls[1]) = 1
    /\ \E r \in returned : r.html = html[1] /\ r.base = base_url[1]
    /\ pc[2] \in {"links", "dedup"}

\* C11: under every interleaving of the invocations, an invocation ends the way
\* it ends when it runs alone on its arguments
C11_NoInterference ==
    \A c \in Calls : Ended(c) => Outcome(c) = RunAlone(html[c], base_url[c])

\* two first invocations on the same document run side by side: one has
\* returned while the other is in the middle of its deduplication loop
C11_Witness ==
    /\ returned = {}
    /\ Returned(1)
    /\ html[1] = <<Anchor("/p", "x"), Anchor("https://h/p", "x")>>
    /\ unique_urls[1] = <<"https://h/p">>
    /\ html[2] = html[1]
    /\ pc[2] = "dedup"
    /\ k[2] = 2
    /\ unique_urls[2] = <<"https://h/p">>

(***************************************************************************)
(* Properties of POST /scrape.                                             *)
(***************************************************************************)
Responded == hpc = "responded"

\* fetch_url returned None, an empty list or a list with an empty first item
FetchedNothing ==
    html_list.none \/ html_list.items = <<>> \/ html_list.items[1] = <<>>

FetchFailureDetail == "HTML parsing error: No content was fetched from the URL"

ExtractionFailureDetail == "HTML parsing error: Text extraction resulted in empty content"

\* the reduction of the first fetched item returned an empty text
ReducedToNothing ==
    /\ ~FetchedNothing
    /\ ~ApiExtractUrlsAndText(html_list.items[1], request.url).raised
    /\ ApiExtractUrlsAndText(html_list.items[1], request.url).text = ""

\* C12: a request whose fetch returns nothing is answered with the fetch
\* failure (500, no content was fetched) and no other request is; a request
\* whose non-empty HTML reduces to an empty text is answered with the
\* extraction failure (500, empty content) and no other request is
C12_FetchFailureDistinct ==
    (Responded /\ fetch_call.called) =>
        /\ (~page.raises /\ FetchedNothing)
           <=> (response.status = 500 /\ response.detail = FetchFailureDetail)
        /\ (~page.raises /\ ReducedToNothing)
           <=> (response.status = 500 /\ response.detail = ExtractionFailureDetail)

\* fetch_url returned a list whose first item is empty, and the request has
\* been answered with the fetch failure
C12_Witness ==
    /\ Responded
    /\ html_list = ListOf(<< <<>>, <<Element("p", "u")>> >>)
    /\ response.status = 500
    /\ response.detail = FetchFailureDetail

\* the request has reached the reduction of a non-empty first item
Reducing == hpc \in {"reduce", "responded"} /\ fetch_call.called /\ ~page.raises /\ ~FetchedNothing

\* C13 as stated: on the first fetched item and the request URL the reducer of
\* api.py ends the way utils.extract_urls_and_text ends, so a successful answer
\* carries the links and text of the four-prefix reducer and no tel: target
C13_SameAsUtils ==
    /\ Reducing =>
           ApiExtractUrlsAndText(html_list.items[1], request.url)
               = RunAlone(html_list.items[1], request.url)
    /\ (Responded /\ response.status = 200) =>
           /\ response.urls = RunAlone(html_list.items[1], request.url).links
           /\ response.text = RunAlone(html_list.items[1], request.url).text
           /\ \A i \in 1..Len(response.urls) : ~StartsWith(response.urls[i], "tel:")

\* the body gives a url and nothing else, and the ScrapeRequest has been built
OnlyUrlGiven ==
    /\ hpc \notin {"idle", "parse"}
    /\ body.url.given
    /\ ~body.fetch_using.given /\ ~body.sleep_time.given /\ ~body.timeout.given
    /\ ~body.headless.given /\ ~body.wait_type.given /\ ~body.wait_selector.given

\* C14 as stated: a ScrapeRequest built from a url alone has fetch_using
\* 'playwright', sleep_time 2, timeout 10, headless true and wait_type 'sleep'
C14_Defaults ==
    OnlyUrlGiven =>
        /\ request.fetch_using = "playwright"
        /\ request.sleep_time = 2
        /\ request.timeout = 10
        /\ request.headless = TRUE
        /\ request.wait_type = "sleep"

\* validate_url has been called on the url of the request
Validated == hpc \in {"fetch", "reduce"} \/ (hpc = "responded" /\ response.status # 422)

\* the request has been answered 400 with the detail of InvalidURLError
AnsweredInvalidURL ==
    /\ Responded
    /\ response.status = 400
    /\ SubstringOf("Invalid URL", response.detail)

\* the scheme the url is written with, lower-cased
SchemeOf(url) == Lower(WrittenScheme(UrlClean(url)))

\* C15 as stated: validate_url raises InvalidURLError (400, 'Invalid URL') for
\* every url whose scheme is empty or not http/https, and POST /scrape then
\* answers 400; it returns without raising for every url whose scheme is http
\* or https
C15_ValidateUrl ==
    Validated =>
        IF SchemeOf(request.url) \in {"http", "https"}
        THEN validate_url(request.url) = "returns" /\ ~AnsweredInvalidURL
        ELSE validate_url(request.url) = "InvalidURLError" /\ AnsweredInvalidURL

StartsWithHttp(url) == StartsWith(url, "http://") \/ StartsWith(url, "https://")

\* C16 as stated: every url validate_url accepts, and so every url fetch_url
\* is called with, starts with 'http://' or 'https://'
C16_AcceptedStartsWithHttp ==
    /\ (Validated /\ validate_url(request.url) = "returns") => StartsWithHttp(request.url)
    /\ fetch_call.called => StartsWithHttp(fetch_call.url)

\* the body's wait_selector is absent, null or the empty string
SelectorMissing ==
    \/ ~body.wait_selector.given
    \/ body.wait_selector.v.null
    \/ body.wait_selector.v.s = ""

AnsweredSelectorRequired ==
    /\ Responded
    /\ response.status = 400
    /\ SubstringOf("wait_selector is required", response.detail)

\* the checks of lines 437-443 let the request through to fetch_url
PastValidation == hpc = "fetch" \/ fetch_call.called

\* C17: with a url that validate_url accepts, wait_type 'selector' or 'text'
\* and a missing wait_selector are answered 400 'wait_selector is required'
\* before fetch_url is called; with wait_type 'sleep', 'idle' or 'none' the
\* request is never answered so and goes on to fetch_url
C17_WaitSelectorRequired ==
    (Validated /\ validate_url(request.url) = "returns") =>
        /\ (request.wait_type \in {"selector", "text"} /\ SelectorMissing)
           => (AnsweredSelectorRequired /\ ~fetch_call.called)
        /\ request.wait_type \in {"sleep", "idle", "none"}
           => (~AnsweredSelectorRequired /\ PastValidation)

\* wait_type 'text' with the empty string as wait_selector has been answered 400
C17_Witness ==
    /\ body.wait_type = Given("text")
    /\ body.wait_selector = Given(Selector(""))
    /\ request.url = "https://h"
    /\ AnsweredSelectorRequired
    /\ response.detail = "wait_selector is required when wait_type is 'text'"

\* the body gives a sleep_time or a timeout outside the declared range
OutOfRange ==
    \/ body.sleep_time.given /\ body.sleep_time.v \notin 0..30
    \/ body.timeout.given /\ body.timeout.v \notin 1..60

\* C19: a body with sleep_time outside 0..30 or timeout outside 1..60 is
\* answered with a validation error and no ScrapeRequest is built from it; every
\* ScrapeRequest, and every call of fetch_url, has both values in range
C19_RangesEnforced ==
    /\ (hpc \notin {"idle", "parse"} /\ OutOfRange) =>
           /\ Responded
           /\ response.status = 422
           /\ request = NoRequest
           /\ ~fetch_call.called
    /\ request # NoRequest => request.sleep_time \in 0..30 /\ request.timeout \in 1..60
    /\ fetch_call.called =>
           fetch_call.sleep_time \in 0..30 /\ fetch_call.timeout \in 1..60

\* a body that is valid but for sleep_time = 31 has been rejected
C19_Witness ==
    /\ body.url = Given("https://h")
    /\ body.sleep_time = Given(31)
    /\ body.timeout = Given(60)
    /\ ~body.fetch_using.given
    /\ ~body.wait_type.given
    /\ Responded
    /\ response.status = 422
    /\ ~fetch_call.called

(***************************************************************************)
(* Properties of the helper functions.                                     *)
(***************************************************************************)
\* C18: map_wait_type returns for every string: for each of the five names the
\* member of ScraperWaitType of that name, for every other string SLEEP
C18_MapWaitTypeTotal ==
    (call.fn = "map_wait_type" /\ result # NoResult) =>
        /\ result.kind = "return"
        /\ call.args[1] \in {"sleep", "idle", "none", "selector", "text"}
           => Lower(result.value) = "scraperwaittype." \o call.args[1]
        /\ call.args[1] \notin {"sleep", "idle", "none", "selector", "text"}
           => result.value = "ScraperWaitType.SLEEP"

\* a string that differs from a name in case only has been mapped to SLEEP
C18_Witness ==
    /\ call = [fn |-> "map_wait_type", args |-> <<"None">>]
    /\ result = Return("ScraperWaitType.SLEEP")

RECURSIVE Flatten(_)
\* the concatenation of the chunks in order
Flatten(chunks) == IF chunks = <<>> THEN <<>> ELSE chunks[1] \o Flatten(Tail(chunks))

\* C20: for chunk_size >= 1 chunk_list returns chunks whose concatenation is
\* items, each non-empty, each but possibly the last of chunk_size elements, and
\* ceil(len(items) / chunk_size) of them
C20_ChunksPartition ==
    (call.fn = "chunk_list" /\ result # NoResult /\ call.args[2] >= 1) =>
        /\ result.kind = "return"
        /\ Flatten(result.value) = call.args[1]
        /\ \A j \in 1..Len(result.value) : Len(result.value[j]) >= 1
        /\ \A j \in 1..(Len(result.value) - 1) : Len(result.value[j]) = call.args[2]
        /\ Len(result.value) * call.args[2] >= Len(call.args[1])
        /\ (Len(result.value) - 1) * call.args[2] < Len(call.args[1])
        /\ call.args[1] = <<>> => result.value = <<>>

\* a list of four has been cut into chunks of three: one full chunk and a rest
C20_Witness ==
    /\ call = [fn |-> "chunk_list", args |-> <<<<"a", "b", "b", "a">>, 3>>]
    /\ result = Return(<< <<"a", "b", "b">>, <<"a">> >>)

\* C21: for every chunk_size <= 0 and every list, the empty list included,
\* chunk_list raises ValueError and returns no list of chunks
C21_InvalidSizeRaises ==
    (call.fn = "chunk_list" /\ result # NoResult /\ call.args[2] <= 0) =>
        /\ result.kind = "raise"
        /\ result.value = "ValueError: chunk_size must be positive"

\* chunk_list has been called on the empty list with a negative chunk_size
C21_Witness ==
    /\ call = [fn |-> "chunk_list", args |-> << <<>>, -1 >>]
    /\ result.kind = "raise"

\* C22: safe_divide returns 0 whenever b is 0, whatever a is, and never
\* raises; whenever b is not 0 it returns the quotient a / b
C22_SafeDivide ==
    (call.fn = "safe_divide" /\ result # NoResult) =>
        /\ result.kind = "return"
        /\ result.value.den > 0
        /\ call.args[2] = 0 => result.value.num = 0
        /\ call.args[2] # 0 => result.value.num * call.args[2] = call.args[1] * result.value.den

\* 0 has been divided by 0
C22_Witness ==
    /\ call = [fn |-> "safe_divide", args |-> <<0, 0>>]
    /\ result = Return(Zero)

(***************************************************************************)
(* Completeness of the returned links.                                     *)
(***************************************************************************)
\* the href passes the filters of section 4.1 under base: it is not empty, has
\* none of the four prefixes, and its resolution has scheme http or https
PassesFilters(base, href) ==
    /\ href # ""
    /\ ~HasFilteredPrefix(href)
    /\ ~Urljoin(base, href).err
    /\ ~Urlparse(Urljoin(base, href).url, "").err
    /\ Urlparse(Urljoin(base, href).url, "").scheme \in {"http", "https"}

\* C23: the returned links are exactly the resolutions of the anchors whose
\* href passes the filters; an anchor with an empty href adds nothing, so
\* base_url is in links only as the resolution of a non-empty href
C23_LinksComplete ==
    \A c \in Calls : Returned(c) =>
        /\ \A href \in AnchorHrefs(c) :
               PassesFilters(base_url[c], href) => Urljoin(base_url[c], href).url \in Links(c)
        /\ \A u \in Links(c) :
               \E href \in AnchorHrefs(c) :
                   PassesFilters(base_url[c], href) /\ Urljoin(base_url[c], href).url = u
        /\ AnchorHrefs(c) \subseteq {"", "#f", "javascript:j", "mailto:m", "tel:1"}
               => unique_urls[c] = <<>>

\* an anchor with an empty href, one with a fragment and one with a path under
\* an https base_url: only the path is returned, base_url is not
C23_Witness ==
    /\ Returned(1)
    /\ html[1] = <<Anchor("", "x"), Anchor("#f", "x"), Anchor("/p", "x")>>
    /\ base_url[1] = "https://h"
    /\ Urljoin(base_url[1], "").url = "https://h"
    /\ unique_urls[1] = <<"https://h/p">>

(***************************************************************************)
(* Order of validation and fetching in POST /scrape.                       *)
(***************************************************************************)
\* validate_url does not return for the url of the request
UrlFails == validate_url(request.url) # "returns"

\* wait_type is 'selector' or 'text' and there is no wait_selector
SelectorDefect == request.wait_type \in {"selector", "text"} /\ SelectorMissing

\* C24 as stated: fetch_url is never called for a request whose url fails
\* validate_url or whose wait_type is 'selector' or 'text' with no
\* wait_selector, and a request with both defects is answered 400 'Invalid URL'
C24_ValidationPrecedesFetch ==
    request # NoRequest =>
        /\ (UrlFails \/ SelectorDefect) => (~fetch_call.called /\ hpc \notin {"fetch", "reduce"})
        /\ (UrlFails /\ SelectorDefect /\ Responded) => AnsweredInvalidURL

\* the part of C24 that holds for every request: no call of fetch_url after a
\* failed check, and InvalidURLError answered before the wait_selector check
C24_FetchOnlyAfterChecks ==
    request # NoRequest =>
        /\ (UrlFails \/ SelectorDefect) => (~fetch_call.called /\ hpc \notin {"fetch", "reduce"})
        /\ (validate_url(request.url) = "InvalidURLError" /\ SelectorDefect /\ Responded)
               => AnsweredInvalidURL
        /\ fetch_call.called => (~UrlFails /\ ~SelectorDefect)

(***************************************************************************)
(* Classification of the exceptions of the try block of POST /scrape.      *)
(***************************************************************************)
\* the lower-cased message holds one of the words
Mentions(msg, words) == \E w \in words : IsSubstring(w, Lower(msg))

\* the answer the stated rules give to a non-HTTP exception with message msg
AnsweredAsClassified(msg) ==
    /\ Mentions(msg, {"timeout", "timed out"}) => response.status = 504
    /\ (~Mentions(msg, {"timeout", "timed out"}) /\ Mentions(msg, {"network", "connection"}))
           => (response.status = 502 /\ response.detail = "Network error: " \o msg)
    /\ (/\ ~Mentions(msg, {"timeout", "timed out", "network", "connection"})
        /\ Mentions(msg, {"parse", "html"}))
           => (response.status = 500 /\ response.detail = "HTML parsing error: " \o msg)
    /\ ~Mentions(msg, {"timeout", "timed out", "network", "connection", "parse", "html"})
           => (response.status = 500 /\ response.detail = "Unexpected error: " \o msg)

\* the reducer raised on the first fetched item
ReducerRaised ==
    /\ ~page.raises
    /\ ~FetchedNothing
    /\ ApiExtractUrlsAndText(html_list.items[1], request.url).raised

\* the response is a success response or an HTTP error, not both
SuccessOrError ==
    \/ response.status = 200 /\ response.detail = ""
    \/ /\ response.status \in {400, 500, 502, 504}
       /\ response.detail # ""
       /\ response.urls = <<>> /\ response.text = ""

\* C25: an exception of fetch_url or of the reducer is answered by the first
\* rule its lower-cased message matches (timeout, network, parsing, unexpected);
\* the ParsingError the handler raises itself is answered as raised; a request
\* that fetch_url was called for is answered once, with a success response or
\* with one HTTP error
C25_Classified ==
    /\ [](fetch_call.called =>
            /\ Responded <=> response # NoResponse
            /\ Responded =>
                   /\ SuccessOrError
                   /\ page.raises => AnsweredAsClassified(page.msg)
                   /\ ReducerRaised => AnsweredAsClassified("Invalid IPv6 URL")
                   /\ (~page.raises /\ FetchedNothing) =>
                          (response.status = 500 /\ response.detail = FetchFailureDetail)
                   /\ (~page.raises /\ ReducedToNothing) =>
                          (response.status = 500 /\ response.detail = ExtractionFailureDetail))
    /\ [][response # NoResponse => response' = response]_vars

\* fetch_url raised a message that names the network and a timeout: answered 504
C25_Witness ==
    /\ Responded
    /\ page = Raises("Network timeout")
    /\ request.timeout = 10
    /\ response.status = 504
    /\ response.detail = "Scraping timeout after 10 seconds"

(***************************************************************************)
(* The success response of POST /scrape.                                   *)
(***************************************************************************)
\* the reduction of the first fetched item returned links and an empty text
LinksButNoText ==
    /\ ~page.raises
    /\ ReducedToNothing
    /\ ApiExtractUrlsAndText(html_list.items[1], request.url).links # <<>>

\* C26: a 200 response is given only after fetch_url returned a list whose
\* first item is not empty; its text has a character that is not whitespace;
\* its url and fetch_using are those of the request; a page that reduces to
\* links and no text is answered with an error
C26_SuccessShape ==
    Responded =>
        /\ response.status = 200 =>
               /\ fetch_call.called
               /\ ~page.raises
               /\ ~html_list.none
               /\ Len(html_list.items) >= 1
               /\ Len(html_list.items[1]) >= 1
               /\ \E i \in 1..Len(response.text) : CharAt(response.text, i) \notin Whitespace
               /\ response.url = request.url
               /\ response.url = body.url.v
               /\ response.fetch_using = request.fetch_using
               /\ response.fetch_using = fetch_call.fetch_using
               /\ body.fetch_using.given => response.fetch_using = body.fetch_using.v
        /\ (fetch_call.called /\ LinksButNoText) => response.status \notin 200..299

\* a page with a link and a paragraph has been answered 200, with the url and
\* the fetch_using of the request
C26_Witness ==
    /\ Responded
    /\ body.url = Given("http://h/d/e")
    /\ body.fetch_using = Given("playwright")
    /\ html_list = ListOf(<<<<Anchor("/p", ""), Element("p", " t ")>>>>)
    /\ response = [status |-> 200, detail |-> "", url |-> "http://h/d/e",
                   urls |-> <<"http://h/p">>, text |-> "t", fetch_using |-> "playwright"]

(***************************************************************************)
(* The batch scripts.                                                      *)
(***************************************************************************)
\* the script has left its loop, by returning or by an exception
DriverEnded == dpc \in {"returned", "raised"}

\* the URLs attempted are the first of the list, each once and in list order
AttemptedInOrder ==
    /\ Len(attempted) <= Len(BatchUrls)
    /\ attempted = SubSeq(BatchUrls, 1, Len(attempted))

\* C27 as stated: each script attempts every URL of the list once, in list
\* order, whatever the attempts do, and has attempted them all when it ends
C27_EveryUrlAttempted ==
    /\ AttemptedInOrder
    /\ DriverEnded => attempted = BatchUrls
    /\ (dpc = "attempt" /\ url_index > 1) => Len(attempted) = url_index - 1

\* the part of C27 that holds: scrape_urls.main attempts every URL, and so does
\* scrape_all as long as every command it starts exits
C27_AttemptedUnlessNotStarted ==
    /\ AttemptedInOrder
    /\ (DriverEnded /\ attempted # BatchUrls) =>
           (driver = "scrape_all" /\ dpc = "raised" /\ outcome = "OSError")
    /\ dpc = "returned" => attempted = BatchUrls

====
